---------------------------- MODULE Spec2Model ----------------------------
(***************************************************************************)
(* State-machine model of TitlebarPart                                     *)
(* (src/vs/workbench/browser/parts/titlebar/titlebarPart.ts).              *)
(*                                                                         *)
(* Strings are sequences of one-character strings, so that split, join,    *)
(* basename and concatenation are computed character by character.  The    *)
(* JavaScript value undefined is the one-element sequence Undefined, which *)
(* is no string of the model (its element is not a single character).      *)
(***************************************************************************)
EXTENDS Integers, Sequences, FiniteSets, TLC

(***************************************************************************)
(* Bounds of the model.                                                    *)
(***************************************************************************)
\* longest represented path, in characters, that setRepresentedFilename is
\* given in SpecMenu
MaxPathLen == 5

Undefined == <<"undefined">>

\* JavaScript truthiness of a string-or-undefined value
Truthy(s) == s # Undefined /\ s # <<>>

(***************************************************************************)
(* Program constants (titlebarPart.ts lines 41-44) and environment values. *)
(***************************************************************************)
NLS_UNSUPPORTED == <<"[","U","n","s","u","p","p","o","r","t","e","d","]">>

NLS_EXTENSION_HOST ==
    <<"[","E","x","t","e","n","s","i","o","n"," ",
      "D","e","v","e","l","o","p","m","e","n","t"," ","H","o","s","t","]">>

\* '\u25cf ' : the bullet is written "*"
TITLE_DIRTY == <<"*"," ">>

\* ' \u2014 ' : the em dash is written "~"
TITLE_SEPARATOR == <<" ","~"," ">>

\* environmentService.appNameLong
appNameLong == <<"C","o","d","e">>

\* paths.sep
sep == "/"

(***************************************************************************)
(* String and path helpers.                                                *)
(***************************************************************************)
\* position (from 1) of the last occurrence of character c in s, 0 if none:
\* String.prototype.lastIndexOf plus one
LastPos(s, c) ==
    IF \E i \in 1..Len(s) : s[i] = c
    THEN CHOOSE i \in 1..Len(s) : s[i] = c /\ \A j \in (i+1)..Len(s) : s[j] # c
    ELSE 0

\* position (from 1) of the first occurrence of character c in s, 0 if none
FirstPos(s, c) ==
    IF \E i \in 1..Len(s) : s[i] = c
    THEN CHOOSE i \in 1..Len(s) : s[i] = c /\ \A j \in 1..(i-1) : s[j] # c
    ELSE 0

\* String.prototype.split(paths.sep)
RECURSIVE Split(_)
Split(s) ==
    LET i == FirstPos(s, sep)
    IN  IF i = 0 THEN <<s>>
        ELSE <<SubSeq(s, 1, i - 1)>> \o Split(SubSeq(s, i + 1, Len(s)))

\* Array.prototype.join(paths.sep)
RECURSIVE Join(_)
Join(segs) ==
    IF Len(segs) = 0 THEN <<>>
    ELSE IF Len(segs) = 1 THEN segs[1]
    ELSE segs[1] \o <<sep>> \o Join(Tail(segs))

\* Array.prototype.slice(0, n)
Slice0(segs, n) == SubSeq(segs, 1, IF n > Len(segs) THEN Len(segs) ELSE n)

\* paths.basename: the text after the last separator, a trailing separator
\* being dropped first
RECURSIVE basename(_)
basename(path) ==
    LET p == LastPos(path, sep)
    IN  IF p = 0 THEN path
        ELSE IF p = Len(path) THEN basename(SubSeq(path, 1, Len(path) - 1))
        ELSE SubSeq(path, p + 1, Len(path))

\* paths.dirname: the text before the last separator
dirname(path) ==
    LET p == LastPos(path, sep)
    IN  IF p = 0 THEN <<".">>
        ELSE IF p = 1 THEN <<path[1]>>
        ELSE SubSeq(path, 1, p - 1)

\* s starts with prefix p
IsPrefix(p, s) == Len(p) <= Len(s) /\ SubSeq(s, 1, Len(p)) = p

\* the characters of the represented paths drawn in SpecMenu
PathChars == {sep, "a"}

\* the path /a/b/c.txt
PathABC == <<"/","a","/","b","/","c",".","t","x","t">>

\* the represented paths drawn in SpecMenu: every string of at most
\* MaxPathLen path characters, and /a/b/c.txt
Paths == UNION { [1..n -> PathChars] : n \in 0..MaxPathLen } \cup {PathABC}

(***************************************************************************)
(* The collaborators' data: editor inputs, workspaces, templates.          *)
(***************************************************************************)
\* inputs that are instances of EditorInput (they have dirty/label emitters)
EditorInputs == {"e1", "e2"}

\* an IEditorInput that is no instance of EditorInput
PlainInput == "plain"

\* editorService.getActiveEditor() returns nothing
NoInput == "none"

ActiveInputs == EditorInputs \cup {PlainInput, NoInput}

\* the names an editor input can carry (onDidChangeLabel moves between them)
Labels == { <<"a">>, <<"b">> }

\* the directory of an input's file resource; the plain input has no file
InputDir(e) ==
    CASE e = "e1" -> <<"/","p">>
      [] e = "e2" -> <<"/","q">>
      [] OTHER    -> Undefined

\* workspace folders, each given by its fsPath
Folder1 == <<"/","p">>

Folder2 == <<"/","r">>

\* contextService.getWorkspace() with contextService.getWorkbenchState()
WsEmpty ==
    [state |-> "EMPTY", name |-> <<>>, folders |-> <<>>,
     configuration |-> Undefined]

WsFolder ==
    [state |-> "FOLDER", name |-> <<"p">>, folders |-> <<Folder1>>,
     configuration |-> Undefined]

WsMulti ==
    [state |-> "WORKSPACE", name |-> <<"w","s">>,
     folders |-> <<Folder2, Folder1>>, configuration |-> <<"/","w">>]

Workspaces == {WsEmpty, WsFolder, WsMulti}

\* a template is a sequence of tokens: a placeholder or literal text
Var(name) == [type |-> "var", value |-> <<name>>]

Text(chars) == [type |-> "text", value |-> chars]

Placeholders ==
    {"activeEditorShort", "activeEditorMedium", "activeEditorLong",
     "rootName", "rootPath", "folderName", "folderPath", "dirty",
     "appName", "separator"}

\* the default of window.title
TemplateDefault ==
    <<Var("dirty"), Var("activeEditorShort"), Var("separator"),
      Var("rootName"), Var("separator"), Var("appName")>>

TemplateShort == <<Var("activeEditorShort"), Var("separator"), Var("rootName")>>

TemplateEmpty == <<>>

\* a template made of placeholders for paths
TemplateLong ==
    <<Var("dirty"), Var("activeEditorLong"), Var("separator"),
      Var("folderName"), Var("separator"), Var("rootPath")>>

\* a template whose literal text is the unsupported marker itself
TemplateMarker == <<Var("activeEditorShort"), Text(<<" ">> \o NLS_UNSUPPORTED)>>

\* a template of one separator: it resolves to the empty string
TemplateSeparator == <<Var("separator")>>

\* the values of window.title the configuration takes in Spec
Templates == {TemplateShort, TemplateEmpty}

\* the values of window.title the configuration takes in SpecCompose
ComposeTemplates ==
    {TemplateDefault, TemplateShort, TemplateEmpty, TemplateLong,
     TemplateMarker, TemplateSeparator}

(***************************************************************************)
(* State.                                                                  *)
(***************************************************************************)
VARIABLES
    \* the widget's fields
    title,                  \* text of the title element; Undefined: no element
    pendingTitle,
    representedFileName,
    isInactive,
    titleTemplate,
    isPure,
    activeEditorListeners,  \* sequence of [input, event] disposables
    toUnbind,               \* the listeners registerListeners attached
    \* the collaborators
    documentTitle,          \* window.document.title
    containerStyle,         \* colours applied to the part container
    configTitle,            \* configuration value of window.title
    activeInput,            \* editorService.getActiveEditorInput()
    dirty,                  \* input.isDirty() of each EditorInput
    label,                  \* name of each EditorInput
    workspace,              \* contextService.getWorkspace()
    isExtensionDevelopment, \* environmentService.isExtensionDevelopment
    creation,               \* partService.joinCreation(): pending | done
    integrity,              \* integrityService.isPure(): pending | done
    emitters,               \* listeners attached to each input's emitters
    nativeRepresentedFilename, \* windowService.setRepresentedFilename
    menu,                   \* the context menu on show: its actions, or <<>>
    \* history
    lastTitle,              \* argument of the latest setTitle call
    setTitleCalls,          \* setTitle calls made by the latest step
    showCalls,              \* showContextMenu calls made by the latest step
    flushes,                \* times pendingTitle was written to the element
    lastOp                  \* the latest step: <<operation, editor input or "">>

widgetVars ==
    <<title, pendingTitle, representedFileName, isInactive, titleTemplate,
      isPure, activeEditorListeners, toUnbind>>

envVars ==
    <<documentTitle, containerStyle, configTitle, activeInput, dirty, label,
      workspace, isExtensionDevelopment, creation, integrity, emitters,
      nativeRepresentedFilename, menu>>

historyVars == <<lastTitle, setTitleCalls, showCalls, flushes, lastOp>>

vars == <<widgetVars, envVars, historyVars>>

(***************************************************************************)
(* labels.template: the template resolver.                                 *)
(***************************************************************************)
RECURSIVE Flatten(_)
Flatten(ss) == IF ss = <<>> THEN <<>> ELSE Head(ss) \o Flatten(Tail(ss))

\* the segment list: literal text, non-empty variable values, and separators
\* (a separator directly after a separator is not pushed)
RECURSIVE Segments(_, _, _)
Segments(tpl, values, acc) ==
    IF tpl = <<>> THEN acc
    ELSE
        LET tok  == Head(tpl)
            name == tok.value[1]
            next ==
                IF tok.type = "text"
                THEN IF tok.value # <<>>
                     THEN Append(acc, [type |-> "TEXT", value |-> tok.value])
                     ELSE acc
                ELSE IF name \notin DOMAIN values THEN acc
                ELSE IF values[name].kind = "string"
                THEN IF values[name].v # <<>>
                     THEN Append(acc, [type |-> "VARIABLE", value |-> values[name].v])
                     ELSE acc
                ELSE IF acc = <<>> \/ acc[Len(acc)].type # "SEPARATOR"
                     THEN Append(acc, [type |-> "SEPARATOR", value |-> values[name].v])
                     ELSE acc
        IN  Segments(Tail(tpl), values, next)

\* a separator is kept only between two non-empty variable values
KeepSegment(segments, i) ==
    segments[i].type = "SEPARATOR" =>
        /\ i > 1 /\ i < Len(segments)
        /\ \A j \in {i - 1, i + 1} :
              segments[j].type = "VARIABLE" /\ Len(segments[j].value) > 0

template(tpl, values) ==
    LET segments == Segments(tpl, values, <<>>)
    IN  Flatten([i \in 1..Len(segments) |->
                    IF KeepSegment(segments, i) THEN segments[i].value ELSE <<>>])

(***************************************************************************)
(* The title composer.  Its operators take the fields and collaborator     *)
(* answers they read as a record s, so that a handler can compose the      *)
(* title of the state it has just produced.                                *)
(***************************************************************************)
ComposerState ==
    [titleTemplate |-> titleTemplate, isPure |-> isPure,
     activeInput |-> activeInput, dirty |-> dirty, label |-> label,
     workspace |-> workspace, isExtensionDevelopment |-> isExtensionDevelopment]

\* input.getTitle(verbosity)
getTitle(s, input, verbosity) ==
    LET name == IF input \in EditorInputs THEN s.label[input] ELSE <<"c">>
        dir  == InputDir(input)
    IN  IF verbosity = "SHORT" \/ dir = Undefined THEN name
        ELSE IF verbosity = "MEDIUM" THEN basename(dir) \o <<sep>> \o name
        ELSE dir \o <<sep>> \o name

\* input.isDirty()
isDirty(s, input) == input \in EditorInputs /\ s.dirty[input]

\* toResource(input, { supportSideBySide: true, filter: 'file' })
toResource(s, input) ==
    IF input = NoInput \/ InputDir(input) = Undefined THEN Undefined
    ELSE InputDir(input) \o <<sep>> \o getTitle(s, input, "SHORT")

\* contextService.getWorkspaceFolder(resource): the folder holding the resource
getWorkspaceFolder(s, resource) ==
    LET folders  == s.workspace.folders
        holds(f) == resource # Undefined /\ IsPrefix(f \o <<sep>>, resource)
        idx      == {i \in 1..Len(folders) : holds(folders[i])}
    IN  IF idx = {} THEN Undefined
        ELSE folders[CHOOSE i \in idx : \A j \in idx : i <= j]

\* labels.getPathLabel(resource, void 0, environmentService)
getPathLabel(resource) == resource

\* the substitution values with the separator passed as a plain string
\* instead of { label: separator }, line 222
SubstitutionValues_plainSeparator(s) ==
    LET input  == s.activeInput
        has    == input # NoInput
        ws     == s.workspace
        folder == IF ws.state = "FOLDER" THEN ws.folders[1]
                  ELSE getWorkspaceFolder(s, toResource(s, input))
        activeEditorShort  == IF has THEN getTitle(s, input, "SHORT") ELSE <<>>
        activeEditorMedium == IF has THEN getTitle(s, input, "MEDIUM") ELSE activeEditorShort
        activeEditorLong   == IF has THEN getTitle(s, input, "LONG") ELSE activeEditorMedium
        rootRes  == IF Truthy(ws.configuration) THEN ws.configuration
                    ELSE IF Len(ws.folders) > 0 THEN ws.folders[1]
                    ELSE Undefined
        rootPath == IF Truthy(getPathLabel(rootRes)) THEN getPathLabel(rootRes) ELSE <<>>
        folderName == IF folder # Undefined
                      THEN IF Truthy(basename(folder)) THEN basename(folder) ELSE folder
                      ELSE <<>>
        folderPath == IF folder # Undefined THEN getPathLabel(folder) ELSE <<>>
        dirtyMark  == IF has /\ isDirty(s, input) THEN TITLE_DIRTY ELSE <<>>
        str(v)     == [kind |-> "string", v |-> v]
    IN  [activeEditorShort  |-> str(activeEditorShort),
         activeEditorLong   |-> str(activeEditorLong),
         activeEditorMedium |-> str(activeEditorMedium),
         rootName   |-> str(ws.name),
         rootPath   |-> str(rootPath),
         folderName |-> str(folderName),
         folderPath |-> str(folderPath),
         dirty      |-> str(dirtyMark),
         appName    |-> str(appNameLong),
         separator  |-> str(TITLE_SEPARATOR)]

\* the substitution values without the defaults of lines 205-207: the labels
\* of the root and of the folder are passed on as getPathLabel answers them
SubstitutionValues_noDefaults(s) ==
    LET input  == s.activeInput
        has    == input # NoInput
        ws     == s.workspace
        folder == IF ws.state = "FOLDER" THEN ws.folders[1]
                  ELSE getWorkspaceFolder(s, toResource(s, input))
        activeEditorShort  == IF has THEN getTitle(s, input, "SHORT") ELSE <<>>
        activeEditorMedium == IF has THEN getTitle(s, input, "MEDIUM") ELSE activeEditorShort
        activeEditorLong   == IF has THEN getTitle(s, input, "LONG") ELSE activeEditorMedium
        rootRes  == IF Truthy(ws.configuration) THEN ws.configuration
                    ELSE IF Len(ws.folders) > 0 THEN ws.folders[1]
                    ELSE Undefined
        folderName == IF folder # Undefined
                      THEN IF Truthy(basename(folder)) THEN basename(folder) ELSE folder
                      ELSE <<>>
        dirtyMark  == IF has /\ isDirty(s, input) THEN TITLE_DIRTY ELSE <<>>
        str(v)     == [kind |-> "string", v |-> v]
    IN  [activeEditorShort  |-> str(activeEditorShort),
         activeEditorLong   |-> str(activeEditorLong),
         activeEditorMedium |-> str(activeEditorMedium),
         rootName   |-> str(ws.name),
         rootPath   |-> str(getPathLabel(rootRes)),
         folderName |-> str(folderName),
         folderPath |-> str(getPathLabel(folder)),
         dirty      |-> str(dirtyMark),
         appName    |-> str(appNameLong),
         separator  |-> [kind |-> "separator", v |-> TITLE_SEPARATOR]]

\* the substitution values, lines 192-210
SubstitutionValues(s) ==
    LET input  == s.activeInput
        has    == input # NoInput
        ws     == s.workspace
        folder == IF ws.state = "FOLDER" THEN ws.folders[1]
                  ELSE getWorkspaceFolder(s, toResource(s, input))
        activeEditorShort  == IF has THEN getTitle(s, input, "SHORT") ELSE <<>>
        activeEditorMedium == IF has THEN getTitle(s, input, "MEDIUM") ELSE activeEditorShort
        activeEditorLong   == IF has THEN getTitle(s, input, "LONG") ELSE activeEditorMedium
        rootName == ws.name
        rootRes  == IF Truthy(ws.configuration) THEN ws.configuration
                    ELSE IF Len(ws.folders) > 0 THEN ws.folders[1]
                    ELSE Undefined
        rootPath == IF Truthy(getPathLabel(rootRes)) THEN getPathLabel(rootRes) ELSE <<>>
        folderName == IF folder # Undefined
                      THEN IF Truthy(basename(folder)) THEN basename(folder) ELSE folder
                      ELSE <<>>
        folderPath == IF folder # Undefined THEN getPathLabel(folder) ELSE <<>>
        dirtyMark  == IF has /\ isDirty(s, input) THEN TITLE_DIRTY ELSE <<>>
        str(v)     == [kind |-> "string", v |-> v]
    IN  [activeEditorShort  |-> str(activeEditorShort),
         activeEditorLong   |-> str(activeEditorLong),
         activeEditorMedium |-> str(activeEditorMedium),
         rootName   |-> str(rootName),
         rootPath   |-> str(rootPath),
         folderName |-> str(folderName),
         folderPath |-> str(folderPath),
         dirty      |-> str(dirtyMark),
         appName    |-> str(appNameLong),
         separator  |-> [kind |-> "separator", v |-> TITLE_SEPARATOR]]

\* doGetWindowTitle, lines 191-224
doGetWindowTitle(s) == template(s.titleTemplate, SubstitutionValues(s))

\* getWindowTitle without the fallback to the application name
getWindowTitle_noFallback(s) ==
    LET t1 == doGetWindowTitle(s)
        t2 == IF ~s.isPure THEN t1 \o <<" ">> \o NLS_UNSUPPORTED ELSE t1
    IN  IF s.isExtensionDevelopment
        THEN NLS_EXTENSION_HOST \o <<" ","-"," ">> \o t2 ELSE t2

\* getWindowTitle with the test of isPure inverted
getWindowTitle_suffixWhenPure(s) ==
    LET base == doGetWindowTitle(s)
        t1 == IF Truthy(base) THEN base ELSE appNameLong
        t2 == IF s.isPure THEN t1 \o <<" ">> \o NLS_UNSUPPORTED ELSE t1
    IN  IF s.isExtensionDevelopment
        THEN NLS_EXTENSION_HOST \o <<" ","-"," ">> \o t2 ELSE t2

\* getWindowTitle with the host marker appended instead of prepended
getWindowTitle_hostAppended(s) ==
    LET base == doGetWindowTitle(s)
        t1 == IF Truthy(base) THEN base ELSE appNameLong
        t2 == IF ~s.isPure THEN t1 \o <<" ">> \o NLS_UNSUPPORTED ELSE t1
    IN  IF s.isExtensionDevelopment
        THEN t2 \o <<" ","-"," ">> \o NLS_EXTENSION_HOST ELSE t2

\* getWindowTitle that falls back to the application name only once the
\* creation of the workbench is done: a title that depends on state outside
\* the composer's inputs
getWindowTitle_readsCreation(s) ==
    LET base == doGetWindowTitle(s)
        t1 == IF Truthy(base) \/ creation = "pending" THEN base ELSE appNameLong
        t2 == IF ~s.isPure THEN t1 \o <<" ">> \o NLS_UNSUPPORTED ELSE t1
    IN  IF s.isExtensionDevelopment
        THEN NLS_EXTENSION_HOST \o <<" ","-"," ">> \o t2 ELSE t2

\* getWindowTitle, lines 159-175
getWindowTitle(s) ==
    LET base == doGetWindowTitle(s)
        t1 == IF Truthy(base) THEN base ELSE appNameLong
        t2 == IF ~s.isPure THEN t1 \o <<" ">> \o NLS_UNSUPPORTED ELSE t1
        t3 == IF s.isExtensionDevelopment
              THEN NLS_EXTENSION_HOST \o <<" ","-"," ">> \o t2 ELSE t2
    IN  t3

(***************************************************************************)
(* The context menu builder, lines 300-325.                                *)
(***************************************************************************)
\* the loop body without pathOffset++ for the segments that are not the file
MenuAction_noOffset(segments, i) ==
    LET isFile == (i = Len(segments))
        path   == Join(Slice0(segments, i))
        name   == IF isFile THEN basename(path) ELSE basename(dirname(path))
    IN  [path |-> path, label |-> IF Truthy(name) THEN name ELSE <<sep>>]

\* the action pushed for loop index i of getContextMenuActions
MenuAction(segments, i) ==
    LET isFile     == (i = Len(segments))
        pathOffset == IF isFile THEN i ELSE i + 1
        path       == Join(Slice0(segments, pathOffset))
        name       == IF isFile THEN basename(path) ELSE basename(dirname(path))
    IN  [path |-> path, label |-> IF Truthy(name) THEN name ELSE <<sep>>]

getContextMenuActions ==
    IF Truthy(representedFileName)
    THEN LET segments == Split(representedFileName)
         IN  [k \in 1..Len(segments) |-> MenuAction(segments, Len(segments) - k + 1)]
    ELSE <<>>

(***************************************************************************)
(* Methods called from several handlers.                                   *)
(***************************************************************************)
\* setTitle with the branch on this.title lost: the title is always buffered
setTitle_alwaysBuffer(t) ==
    /\ documentTitle' = t
    /\ pendingTitle' = t
    /\ UNCHANGED title
    /\ lastTitle' = t

\* setTitle(title), lines 327-338
setTitle(t) ==
    /\ documentTitle' = t
    /\ IF title # Undefined
       THEN title' = t /\ UNCHANGED pendingTitle
       ELSE pendingTitle' = t /\ UNCHANGED title
    /\ lastTitle' = t

noSetTitle == UNCHANGED <<documentTitle, title, pendingTitle, lastTitle>>

\* the container has been given no colours (it does not exist yet, or no
\* updateStyles has run since it was created)
NoStyle == "none"

\* updateStyles that takes the active colours whatever the state
updateStyles_ignoresState ==
    IF title # Undefined
    THEN containerStyle' = "active"
    ELSE UNCHANGED containerStyle

\* the colours updateStyles applies to the part container, lines 265-277
updateStyles ==
    IF title # Undefined
    THEN containerStyle' = IF isInactive' THEN "inactive" ELSE "active"
    ELSE UNCHANGED containerStyle

\* dispose(this.activeEditorListeners): each disposable leaves its emitter
RECURSIVE Detach(_, _)
Detach(em, ls) ==
    IF ls = <<>> THEN em
    ELSE LET l == Head(ls)
             n == em[l.input][l.event]
         IN  Detach([em EXCEPT ![l.input][l.event] = IF n > 0 THEN n - 1 ELSE 0],
                    Tail(ls))

\* activeInput.onDidChangeDirty(..), activeInput.onDidChangeLabel(..)
Attach(em, input) ==
    [em EXCEPT ![input] = [dirty |-> @.dirty + 1, label |-> @.label + 1]]

(***************************************************************************)
(* Init: the state after the constructor (lines 58-80): isPure is true,    *)
(* no editor listeners, the template read once without a title update,     *)
(* both promises pending, the six listeners of registerListeners attached. *)
(***************************************************************************)
Listeners == {"blur", "focus", "configuration", "editors", "folders", "name"}

InitWidget ==
    /\ title = Undefined
    /\ pendingTitle = Undefined
    /\ representedFileName = Undefined
    /\ isInactive = FALSE
    /\ titleTemplate = configTitle
    /\ isPure = TRUE
    /\ activeEditorListeners = <<>>
    /\ toUnbind = Listeners

InitRest ==
    /\ documentTitle = <<>>
    /\ containerStyle = NoStyle
    /\ emitters = [e \in EditorInputs |-> [dirty |-> 0, label |-> 0]]
    /\ creation = "pending"
    /\ integrity = "pending"
    /\ nativeRepresentedFilename = Undefined
    /\ menu = <<>>
    /\ lastTitle = Undefined
    /\ setTitleCalls = 0
    /\ showCalls = 0
    /\ flushes = 0
    /\ lastOp = <<"constructor", "">>

Init ==
    /\ configTitle \in Templates
    /\ activeInput = NoInput
    /\ dirty = [e \in EditorInputs |-> FALSE]
    /\ label = [e \in EditorInputs |-> <<"a">>]
    /\ workspace \in Workspaces
    /\ isExtensionDevelopment \in BOOLEAN
    /\ InitWidget
    /\ InitRest

(***************************************************************************)
(* Actions: one per public method, event handler or promise callback.      *)
(***************************************************************************)
composerInputs ==
    <<titleTemplate, isPure, activeInput, dirty, label, workspace,
      isExtensionDevelopment>>

\* a caller invokes the public setTitle(t)
CallSetTitle(t) ==
    /\ setTitle(t)
    /\ setTitleCalls' = 1
    /\ lastOp' = <<"setTitle", "">>
    /\ showCalls' = 0
    /\ UNCHANGED <<representedFileName, isInactive, activeEditorListeners,
                   toUnbind, containerStyle, configTitle, creation, integrity,
                   emitters, nativeRepresentedFilename, menu, flushes>>
    /\ UNCHANGED composerInputs

\* createContentArea without the flush of pendingTitle
CreateContentArea_noFlush ==
    /\ title = Undefined
    /\ title' = <<>>
    /\ flushes' = flushes
    /\ setTitleCalls' = 0
    /\ lastOp' = <<"createContentArea", "">>
    /\ showCalls' = 0
    /\ UNCHANGED <<pendingTitle, documentTitle, lastTitle, representedFileName,
                   isInactive, titleTemplate, isPure, activeEditorListeners,
                   toUnbind, containerStyle, configTitle, activeInput, dirty,
                   label, workspace, isExtensionDevelopment, creation,
                   integrity, emitters, nativeRepresentedFilename, menu>>

\* createContentArea, lines 226-233; Part.create invokes it once
CreateContentArea ==
    /\ title = Undefined
    /\ title' = IF Truthy(pendingTitle) THEN pendingTitle ELSE <<>>
    /\ flushes' = IF Truthy(pendingTitle) THEN flushes + 1 ELSE flushes
    /\ setTitleCalls' = 0
    /\ lastOp' = <<"createContentArea", "">>
    /\ showCalls' = 0
    /\ UNCHANGED <<pendingTitle, documentTitle, lastTitle, representedFileName,
                   isInactive, activeEditorListeners, toUnbind, containerStyle,
                   configTitle, creation, integrity, emitters,
                   nativeRepresentedFilename, menu>>
    /\ UNCHANGED composerInputs

\* onBlur that also recomputes the title
OnBlur_recomputesTitle ==
    /\ "blur" \in toUnbind
    /\ isInactive' = TRUE
    /\ updateStyles
    /\ UNCHANGED composerInputs
    /\ setTitle(getWindowTitle(ComposerState'))
    /\ setTitleCalls' = 1
    /\ lastOp' = <<"onBlur", "">>
    /\ showCalls' = 0
    /\ UNCHANGED <<representedFileName, activeEditorListeners, toUnbind,
                   configTitle, creation, integrity, emitters,
                   nativeRepresentedFilename, menu, flushes>>

\* window blur, lines 108-111
OnBlur ==
    /\ "blur" \in toUnbind
    /\ isInactive' = TRUE
    /\ updateStyles
    /\ noSetTitle
    /\ setTitleCalls' = 0
    /\ lastOp' = <<"onBlur", "">>
    /\ showCalls' = 0
    /\ UNCHANGED <<representedFileName, titleTemplate, isPure,
                   activeEditorListeners, toUnbind, configTitle, activeInput,
                   dirty, label, workspace, isExtensionDevelopment, creation,
                   integrity, emitters, nativeRepresentedFilename, menu, flushes>>

\* window focus, lines 113-116
OnFocus ==
    /\ "focus" \in toUnbind
    /\ isInactive' = FALSE
    /\ updateStyles
    /\ noSetTitle
    /\ setTitleCalls' = 0
    /\ lastOp' = <<"onFocus", "">>
    /\ showCalls' = 0
    /\ UNCHANGED <<representedFileName, titleTemplate, isPure,
                   activeEditorListeners, toUnbind, configTitle, activeInput,
                   dirty, label, workspace, isExtensionDevelopment, creation,
                   integrity, emitters, nativeRepresentedFilename, menu, flushes>>

\* the workspace folders change, and onDidChangeWorkspaceFolders (118-120)
\* runs while its listener is attached
DidChangeWorkspaceFolders(w) ==
    /\ w.folders # workspace.folders
    /\ workspace' = w
    /\ UNCHANGED <<titleTemplate, isPure, activeInput, dirty, label,
                   isExtensionDevelopment>>
    /\ IF "folders" \in toUnbind
       THEN setTitle(getWindowTitle(ComposerState')) /\ setTitleCalls' = 1
       ELSE noSetTitle /\ setTitleCalls' = 0
    /\ lastOp' = <<"onDidChangeWorkspaceFolders", "">>
    /\ showCalls' = 0
    /\ UNCHANGED <<representedFileName, isInactive, activeEditorListeners,
                   toUnbind, containerStyle, configTitle, creation, integrity,
                   emitters, nativeRepresentedFilename, menu, flushes>>

\* the workspace name changes, and onDidChangeWorkspaceName (122-124) runs
\* while its listener is attached
DidChangeWorkspaceName(w) ==
    /\ w.name # workspace.name
    /\ workspace' = w
    /\ UNCHANGED <<titleTemplate, isPure, activeInput, dirty, label,
                   isExtensionDevelopment>>
    /\ IF "name" \in toUnbind
       THEN setTitle(getWindowTitle(ComposerState')) /\ setTitleCalls' = 1
       ELSE noSetTitle /\ setTitleCalls' = 0
    /\ lastOp' = <<"onDidChangeWorkspaceName", "">>
    /\ showCalls' = 0
    /\ UNCHANGED <<representedFileName, isInactive, activeEditorListeners,
                   toUnbind, containerStyle, configTitle, creation, integrity,
                   emitters, nativeRepresentedFilename, menu, flushes>>

\* onConfigurationChanged(true) without the comparison of the templates: every
\* notification recomputes the title
DidUpdateConfiguration_alwaysUpdate(t) ==
    /\ configTitle' = t
    /\ UNCHANGED <<isPure, activeInput, dirty, label, workspace,
                   isExtensionDevelopment>>
    /\ IF "configuration" \in toUnbind
       THEN /\ titleTemplate' = configTitle'
            /\ setTitle(getWindowTitle(ComposerState'))
            /\ setTitleCalls' = 1
       ELSE UNCHANGED titleTemplate /\ noSetTitle /\ setTitleCalls' = 0
    /\ lastOp' = <<"onConfigurationChanged", "">>
    /\ showCalls' = 0
    /\ UNCHANGED <<representedFileName, isInactive, activeEditorListeners,
                   toUnbind, containerStyle, creation, integrity, emitters,
                   nativeRepresentedFilename, menu, flushes>>

\* onConfigurationChanged(true) that composes the title before it stores the
\* new template
DidUpdateConfiguration_composeFirst(t) ==
    /\ configTitle' = t
    /\ UNCHANGED <<isPure, activeInput, dirty, label, workspace,
                   isExtensionDevelopment>>
    /\ IF "configuration" \in toUnbind
       THEN /\ titleTemplate' = configTitle'
            /\ IF titleTemplate # titleTemplate'
               THEN setTitle(getWindowTitle(ComposerState)) /\ setTitleCalls' = 1
               ELSE noSetTitle /\ setTitleCalls' = 0
       ELSE UNCHANGED titleTemplate /\ noSetTitle /\ setTitleCalls' = 0
    /\ lastOp' = <<"onConfigurationChanged", "">>
    /\ showCalls' = 0
    /\ UNCHANGED <<representedFileName, isInactive, activeEditorListeners,
                   toUnbind, containerStyle, creation, integrity, emitters,
                   nativeRepresentedFilename, menu, flushes>>

\* the configuration is updated to hold t under window.title (t may be the
\* value it held), and onConfigurationChanged(true) (126-133) runs while its
\* listener is attached
DidUpdateConfiguration(t) ==
    /\ configTitle' = t
    /\ UNCHANGED <<isPure, activeInput, dirty, label, workspace,
                   isExtensionDevelopment>>
    /\ IF "configuration" \in toUnbind
       THEN /\ titleTemplate' = configTitle'
            /\ IF titleTemplate # titleTemplate'
               THEN setTitle(getWindowTitle(ComposerState')) /\ setTitleCalls' = 1
               ELSE noSetTitle /\ setTitleCalls' = 0
       ELSE UNCHANGED titleTemplate /\ noSetTitle /\ setTitleCalls' = 0
    /\ lastOp' = <<"onConfigurationChanged", "">>
    /\ showCalls' = 0
    /\ UNCHANGED <<representedFileName, isInactive, activeEditorListeners,
                   toUnbind, containerStyle, creation, integrity, emitters,
                   nativeRepresentedFilename, menu, flushes>>

\* onEditorsChanged without the disposal of the old listeners
onEditorsChanged_noDispose ==
    /\ IF activeInput' \in EditorInputs
       THEN /\ emitters' = Attach(emitters, activeInput')
            /\ activeEditorListeners' =
                   activeEditorListeners \o
                   << [input |-> activeInput', event |-> "dirty"],
                      [input |-> activeInput', event |-> "label"] >>
       ELSE UNCHANGED <<emitters, activeEditorListeners>>
    /\ setTitle(getWindowTitle(ComposerState'))
    /\ setTitleCalls' = 1

\* onEditorsChanged, lines 135-157 (the editor service already answers with
\* the new active input)
onEditorsChanged ==
    /\ LET cleared == Detach(emitters, activeEditorListeners)
       IN  IF activeInput' \in EditorInputs
           THEN /\ emitters' = Attach(cleared, activeInput')
                /\ activeEditorListeners' =
                       << [input |-> activeInput', event |-> "dirty"],
                          [input |-> activeInput', event |-> "label"] >>
           ELSE /\ emitters' = cleared
                /\ activeEditorListeners' = <<>>
    /\ setTitle(getWindowTitle(ComposerState'))
    /\ setTitleCalls' = 1

\* the editors change so that input is the active one (it may be the one that
\* was active), and onEditorsChanged runs while its listener is attached
EditorsChanged(input) ==
    /\ activeInput' = input
    /\ UNCHANGED <<titleTemplate, isPure, dirty, label, workspace,
                   isExtensionDevelopment>>
    /\ IF "editors" \in toUnbind
       THEN onEditorsChanged
       ELSE /\ noSetTitle /\ setTitleCalls' = 0
            /\ UNCHANGED <<emitters, activeEditorListeners>>
    /\ lastOp' = <<"onEditorsChanged", input>>
    /\ showCalls' = 0
    /\ UNCHANGED <<representedFileName, isInactive, toUnbind, containerStyle,
                   configTitle, creation, integrity,
                   nativeRepresentedFilename, menu, flushes>>

\* input e fires onDidChangeDirty: every listener attached to it runs
\* setTitle(getWindowTitle()), lines 149-151
DirtyChanged(e) ==
    /\ dirty' = [dirty EXCEPT ![e] = ~@]
    /\ UNCHANGED <<titleTemplate, isPure, activeInput, label, workspace,
                   isExtensionDevelopment>>
    /\ IF emitters[e]["dirty"] > 0
       THEN setTitle(getWindowTitle(ComposerState'))
       ELSE noSetTitle
    /\ setTitleCalls' = emitters[e]["dirty"]
    /\ lastOp' = <<"onDidChangeDirty", e>>
    /\ showCalls' = 0
    /\ UNCHANGED <<representedFileName, isInactive, activeEditorListeners,
                   toUnbind, containerStyle, configTitle, creation, integrity,
                   emitters, nativeRepresentedFilename, menu, flushes>>

\* the label listener setting the title composed before the change
LabelChanged_staleTitle(e, l) ==
    /\ l # label[e]
    /\ label' = [label EXCEPT ![e] = l]
    /\ UNCHANGED <<titleTemplate, isPure, activeInput, dirty, workspace,
                   isExtensionDevelopment>>
    /\ IF emitters[e]["label"] > 0
       THEN setTitle(getWindowTitle(ComposerState))
       ELSE noSetTitle
    /\ setTitleCalls' = emitters[e]["label"]
    /\ lastOp' = <<"onDidChangeLabel", e>>
    /\ showCalls' = 0
    /\ UNCHANGED <<representedFileName, isInactive, activeEditorListeners,
                   toUnbind, containerStyle, configTitle, creation, integrity,
                   emitters, nativeRepresentedFilename, menu, flushes>>

\* input e fires onDidChangeLabel: every listener attached to it runs
\* setTitle(getWindowTitle()), lines 153-155
LabelChanged(e, l) ==
    /\ l # label[e]
    /\ label' = [label EXCEPT ![e] = l]
    /\ UNCHANGED <<titleTemplate, isPure, activeInput, dirty, workspace,
                   isExtensionDevelopment>>
    /\ IF emitters[e]["label"] > 0
       THEN setTitle(getWindowTitle(ComposerState'))
       ELSE noSetTitle
    /\ setTitleCalls' = emitters[e]["label"]
    /\ lastOp' = <<"onDidChangeLabel", e>>
    /\ showCalls' = 0
    /\ UNCHANGED <<representedFileName, isInactive, activeEditorListeners,
                   toUnbind, containerStyle, configTitle, creation, integrity,
                   emitters, nativeRepresentedFilename, menu, flushes>>

\* partService.joinCreation() completes, line 88
JoinCreationDone ==
    /\ creation = "pending"
    /\ creation' = "done"
    /\ UNCHANGED composerInputs
    /\ setTitle(getWindowTitle(ComposerState'))
    /\ setTitleCalls' = 1
    /\ lastOp' = <<"joinCreation", "">>
    /\ showCalls' = 0
    /\ UNCHANGED <<representedFileName, isInactive, activeEditorListeners,
                   toUnbind, containerStyle, configTitle, integrity, emitters,
                   nativeRepresentedFilename, menu, flushes>>

\* the integrity callback that clears the flag without recomputing the title
IntegrityResolved_noRecompute(pure) ==
    /\ integrity = "pending"
    /\ integrity' = "done"
    /\ UNCHANGED <<titleTemplate, activeInput, dirty, label, workspace,
                   isExtensionDevelopment>>
    /\ isPure' = (isPure /\ pure)
    /\ noSetTitle
    /\ setTitleCalls' = 0
    /\ lastOp' = <<"isPure", "">>
    /\ showCalls' = 0
    /\ UNCHANGED <<representedFileName, isInactive, activeEditorListeners,
                   toUnbind, containerStyle, configTitle, creation, emitters,
                   nativeRepresentedFilename, menu, flushes>>

\* the integrity callback without the test of r.isPure around the recompute
IntegrityResolved_alwaysRecompute(pure) ==
    /\ integrity = "pending"
    /\ integrity' = "done"
    /\ UNCHANGED <<titleTemplate, activeInput, dirty, label, workspace,
                   isExtensionDevelopment>>
    /\ isPure' = (isPure /\ pure)
    /\ setTitle(getWindowTitle(ComposerState'))
    /\ setTitleCalls' = 1
    /\ lastOp' = <<"isPure", "">>
    /\ showCalls' = 0
    /\ UNCHANGED <<representedFileName, isInactive, activeEditorListeners,
                   toUnbind, containerStyle, configTitle, creation, emitters,
                   nativeRepresentedFilename, menu, flushes>>

\* integrityService.isPure() resolves with r.isPure = pure, lines 91-96
IntegrityResolved(pure) ==
    /\ integrity = "pending"
    /\ integrity' = "done"
    /\ UNCHANGED <<titleTemplate, activeInput, dirty, label, workspace,
                   isExtensionDevelopment>>
    /\ IF ~pure
       THEN isPure' = FALSE /\ setTitle(getWindowTitle(ComposerState')) /\ setTitleCalls' = 1
       ELSE UNCHANGED isPure /\ noSetTitle /\ setTitleCalls' = 0
    /\ lastOp' = <<"isPure", "">>
    /\ showCalls' = 0
    /\ UNCHANGED <<representedFileName, isInactive, activeEditorListeners,
                   toUnbind, containerStyle, configTitle, creation, emitters,
                   nativeRepresentedFilename, menu, flushes>>

\* setRepresentedFilename that passes the path on to the window and does not
\* keep it
SetRepresentedFilename_notKept(path) ==
    /\ nativeRepresentedFilename' = path
    /\ UNCHANGED representedFileName
    /\ noSetTitle
    /\ setTitleCalls' = 0
    /\ lastOp' = <<"setRepresentedFilename", "">>
    /\ showCalls' = 0
    /\ UNCHANGED <<isInactive, activeEditorListeners, toUnbind, containerStyle,
                   configTitle, creation, integrity, emitters, menu, flushes>>
    /\ UNCHANGED composerInputs

\* setRepresentedFilename(path), lines 340-347
SetRepresentedFilename(path) ==
    /\ nativeRepresentedFilename' = path
    /\ representedFileName' = path
    /\ noSetTitle
    /\ setTitleCalls' = 0
    /\ lastOp' = <<"setRepresentedFilename", "">>
    /\ showCalls' = 0
    /\ UNCHANGED <<isInactive, activeEditorListeners, toUnbind, containerStyle,
                   configTitle, creation, integrity, emitters, menu, flushes>>
    /\ UNCHANGED composerInputs

\* a context-menu event on the title element, lines 283-298
OnContextMenu ==
    /\ title # Undefined
    /\ LET actions == getContextMenuActions
       IN  IF Len(actions) > 0
           THEN menu' = actions /\ showCalls' = 1
           ELSE UNCHANGED menu /\ showCalls' = 0
    /\ noSetTitle
    /\ setTitleCalls' = 0
    /\ lastOp' = <<"onContextMenu", "">>
    /\ UNCHANGED <<representedFileName, isInactive, activeEditorListeners,
                   toUnbind, containerStyle, configTitle, creation, integrity,
                   emitters, nativeRepresentedFilename, flushes>>
    /\ UNCHANGED composerInputs

\* the menu on show is hidden (onHide disposes its actions), line 295
HideMenu ==
    /\ menu # <<>>
    /\ menu' = <<>>
    /\ noSetTitle
    /\ setTitleCalls' = 0
    /\ lastOp' = <<"onHide", "">>
    /\ showCalls' = 0
    /\ UNCHANGED <<representedFileName, isInactive, activeEditorListeners,
                   toUnbind, containerStyle, configTitle, creation, integrity,
                   emitters, nativeRepresentedFilename, flushes>>
    /\ UNCHANGED composerInputs

\* the widget is torn down: the inherited dispose releases toUnbind, the
\* listeners of registerListeners (lines 99-106); the class declares no
\* dispose of its own
Dispose ==
    /\ toUnbind # {}
    /\ toUnbind' = {}
    /\ noSetTitle
    /\ setTitleCalls' = 0
    /\ lastOp' = <<"dispose", "">>
    /\ showCalls' = 0
    /\ UNCHANGED <<representedFileName, isInactive, activeEditorListeners,
                   containerStyle, configTitle, creation, integrity, emitters,
                   nativeRepresentedFilename, menu, flushes>>
    /\ UNCHANGED composerInputs

(***************************************************************************)
(* Specifications.  Spec runs the title life cycle: every caller of        *)
(* setTitle outside the editor listeners, with createContentArea, focus    *)
(* and teardown.  SpecEditors runs the editor events and the per-editor    *)
(* listeners.  SpecCompose draws the composer's inputs widely.  SpecMenu   *)
(* runs the represented file name and the context menu.                    *)
(***************************************************************************)
\* the titles callers pass to the public setTitle
PublicTitles == { <<>>, <<"X">> }

Next ==
    \/ \E t \in PublicTitles : CallSetTitle(t)
    \/ CreateContentArea
    \/ OnBlur
    \/ OnFocus
    \/ \E w \in Workspaces : DidChangeWorkspaceFolders(w)
    \/ \E w \in Workspaces : DidChangeWorkspaceName(w)
    \/ \E t \in Templates : DidUpdateConfiguration(t)
    \/ JoinCreationDone
    \/ \E pure \in BOOLEAN : IntegrityResolved(pure)
    \/ Dispose

Spec == Init /\ [][Next]_vars

NextEditors ==
    \/ CreateContentArea
    \/ \E i \in ActiveInputs : EditorsChanged(i)
    \/ \E e \in EditorInputs : DirtyChanged(e)
    \/ \E e \in EditorInputs, l \in Labels : LabelChanged(e, l)
    \/ Dispose

SpecEditors == Init /\ [][NextEditors]_vars

\* the widget constructed in any state of the editors, the workspace and the
\* configuration
InitCompose ==
    /\ configTitle \in ComposeTemplates
    /\ activeInput \in ActiveInputs
    /\ dirty \in [EditorInputs -> BOOLEAN]
    /\ label \in [EditorInputs -> Labels]
    /\ workspace \in Workspaces
    /\ isExtensionDevelopment \in BOOLEAN
    /\ InitWidget
    /\ InitRest

NextCompose ==
    \/ \E t \in ComposeTemplates : DidUpdateConfiguration(t)
    \/ JoinCreationDone
    \/ \E pure \in BOOLEAN : IntegrityResolved(pure)

SpecCompose == InitCompose /\ [][NextCompose]_vars

\* the widget constructed in a folder workspace
InitMenu ==
    /\ configTitle = TemplateShort
    /\ activeInput = NoInput
    /\ dirty = [e \in EditorInputs |-> FALSE]
    /\ label = [e \in EditorInputs |-> <<"a">>]
    /\ workspace = WsFolder
    /\ isExtensionDevelopment = FALSE
    /\ InitWidget
    /\ InitRest

NextMenu ==
    \/ CreateContentArea
    \/ \E p \in Paths : SetRepresentedFilename(p)
    \/ OnContextMenu
    \/ HideMenu

SpecMenu == InitMenu /\ [][NextMenu]_vars

\* the values of window.title the configuration holds in SpecEvents: they
\* name the editor, its dirty mark, the workspace and the folder
EventTemplates == {TemplateDefault, TemplateLong}

\* the widget constructed with a template that shows every event
InitEvents ==
    /\ configTitle \in EventTemplates
    /\ activeInput = NoInput
    /\ dirty = [e \in EditorInputs |-> FALSE]
    /\ label = [e \in EditorInputs |-> <<"a">>]
    /\ workspace \in Workspaces
    /\ isExtensionDevelopment = FALSE
    /\ InitWidget
    /\ InitRest

\* the events of the editors and of the workspace, reaching a live widget
NextEvents ==
    \/ CreateContentArea
    \/ \E i \in ActiveInputs : EditorsChanged(i)
    \/ \E e \in EditorInputs : DirtyChanged(e)
    \/ \E e \in EditorInputs, l \in Labels : LabelChanged(e, l)
    \/ \E w \in Workspaces : DidChangeWorkspaceFolders(w)
    \/ \E w \in Workspaces : DidChangeWorkspaceName(w)

SpecEvents == InitEvents /\ [][NextEvents]_vars

\* the represented paths callers pass in SpecFocus
FocusPaths == { <<>>, PathABC }

\* focus and blur among the calls and events that write the title, the
\* represented path and the editor listeners
NextFocus ==
    \/ CreateContentArea
    \/ OnBlur
    \/ OnFocus
    \/ \E t \in PublicTitles : CallSetTitle(t)
    \/ \E p \in FocusPaths : SetRepresentedFilename(p)
    \/ \E i \in ActiveInputs : EditorsChanged(i)
    \/ Dispose

SpecFocus == Init /\ [][NextFocus]_vars

(***************************************************************************)
(* Claims.                                                                 *)
(***************************************************************************)
\* C1: once the title element exists and setTitle has been called, the
\* native window title and the text of the title element both equal the
\* argument of the most recent setTitle call.
C1_TitleSync ==
    (title # Undefined /\ lastTitle # Undefined) =>
        (documentTitle = lastTitle /\ title = lastTitle)

\* a setTitle call made after the element was created, with a title that was
\* never buffered
C1_Witness ==
    /\ title = <<"X">>
    /\ lastOp = <<"setTitle", "">>
    /\ lastTitle = <<"X">>
    /\ documentTitle = <<"X">>
    /\ pendingTitle # <<"X">>

\* C2: a setTitle call made before the element exists sets the native title
\* at once and buffers the value; createContentArea leaves the element with
\* the title of the most recent setTitle call, writing the buffered value at
\* most once, and once the element exists setTitle no longer touches the
\* buffer, so the buffered value is never written again.
C2_BufferedFlush ==
    /\ lastTitle # Undefined => documentTitle = lastTitle
    /\ (title = Undefined /\ lastTitle # Undefined) => pendingTitle = lastTitle
    /\ lastOp = <<"createContentArea", "">> =>
          /\ title = (IF lastTitle = Undefined THEN <<>> ELSE lastTitle)
          /\ Truthy(lastTitle) => flushes = 1
    /\ flushes <= 1
    /\ title = Undefined => flushes = 0

\* createContentArea has just flushed a buffered, non-empty title
C2_Witness ==
    /\ lastOp = <<"createContentArea", "">>
    /\ flushes = 1
    /\ Truthy(pendingTitle)
    /\ title = pendingTitle
    /\ title = lastTitle
    /\ documentTitle = lastTitle

\* the listeners a live widget holds for input x: its dirty and label
\* listeners if x is an EditorInput, none otherwise
ListenersOf(x) ==
    IF x \in EditorInputs
    THEN << [input |-> x, event |-> "dirty"], [input |-> x, event |-> "label"] >>
    ELSE <<>>

\* C3: while the widget listens to editors-changed events, the listeners
\* attached to the editor inputs are exactly the dirty and label listeners of
\* the input active at the latest such event (none if it is no EditorInput),
\* and a dirty or label change of an input runs setTitle once if that input
\* is the listened-to one and not at all otherwise.
C3_ListenersExact ==
    "editors" \in toUnbind =>
        /\ activeEditorListeners = ListenersOf(activeInput)
        /\ \A e \in EditorInputs :
              /\ emitters[e]["dirty"] = (IF e = activeInput THEN 1 ELSE 0)
              /\ emitters[e]["label"] = (IF e = activeInput THEN 1 ELSE 0)
              /\ lastOp \in { <<"onDidChangeDirty", e>>, <<"onDidChangeLabel", e>> } =>
                    setTitleCalls = (IF e = activeInput THEN 1 ELSE 0)

\* e2 is the listened-to input, and a dirty change of e1 has just passed
\* without a setTitle call
C3_Witness ==
    /\ "editors" \in toUnbind
    /\ activeInput = "e2"
    /\ activeEditorListeners = ListenersOf("e2")
    /\ lastOp = <<"onDidChangeDirty", "e1">>
    /\ dirty["e1"]
    /\ setTitleCalls = 0
    /\ lastTitle # Undefined

\* C4: once the widget is torn down no active-editor listener is left
\* attached, and no dirty or label change of an editor input calls setTitle.
C4_DisposedInFull ==
    toUnbind = {} =>
        /\ activeEditorListeners = <<>>
        /\ \A e \in EditorInputs :
              emitters[e]["dirty"] = 0 /\ emitters[e]["label"] = 0
        /\ lastOp[1] \in {"onDidChangeDirty", "onDidChangeLabel"} =>
              setTitleCalls = 0

\* the text the composer prepends for an extension development host, and
\* the text it appends for an impure instance
HostPrefix == NLS_EXTENSION_HOST \o <<" ", "-", " ">>

UnsupportedSuffix == <<" ">> \o NLS_UNSUPPORTED

\* t without its first n and its last m characters
Strip(t, n, m) == SubSeq(t, n + 1, Len(t) - m)

\* the resolved template and the composed title of the current state
Resolved == doGetWindowTitle(ComposerState)

Composed == getWindowTitle(ComposerState)

\* C5: the base title inside the composed title (the composed title without
\* the host prefix and the unsupported suffix it may carry) is the
\* application's long name when the template resolves to the empty string,
\* and the resolved string unchanged otherwise.
C5_FallbackToAppName ==
    LET n    == IF isExtensionDevelopment THEN Len(HostPrefix) ELSE 0
        m    == IF isPure THEN 0 ELSE Len(UnsupportedSuffix)
        base == Strip(Composed, n, m)
    IN  /\ Len(Composed) >= n + m
        /\ Resolved = <<>> => base = appNameLong
        /\ Resolved # <<>> => base = Resolved

\* a non-empty template has resolved to the empty string and the title set
\* when creation completed is the application name
C5_Witness ==
    /\ titleTemplate # <<>>
    /\ Resolved = <<>>
    /\ lastOp = <<"joinCreation", "">>
    /\ isPure /\ ~isExtensionDevelopment
    /\ documentTitle = appNameLong

\* C6: for an impure instance the composed title (without the host prefix)
\* is the base title, or the application name in its place, followed by
\* " [Unsupported]" once; for a pure instance nothing is appended.
C6_UnsupportedSuffix ==
    LET n    == IF isExtensionDevelopment THEN Len(HostPrefix) ELSE 0
        rest == Strip(Composed, n, 0)
        base == IF Resolved = <<>> THEN appNameLong ELSE Resolved
    IN  IF isPure THEN rest = base ELSE rest = base \o UnsupportedSuffix

\* the integrity check has resolved impure, the template resolves to the
\* empty string, and the title set is the application name with the suffix
C6_Witness ==
    /\ ~isPure
    /\ lastOp = <<"isPure", "">>
    /\ Resolved = <<>>
    /\ ~isExtensionDevelopment
    /\ documentTitle = appNameLong \o UnsupportedSuffix

\* C7: for an extension development host the composed title is
\* "[Extension Development Host] - " followed by the title the same state
\* composes when it is no development host; otherwise it carries no prefix.
C7_HostPrefix ==
    LET inner == (IF Resolved = <<>> THEN appNameLong ELSE Resolved)
                 \o (IF isPure THEN <<>> ELSE UnsupportedSuffix)
        plain == getWindowTitle([ComposerState EXCEPT !.isExtensionDevelopment = FALSE])
    IN  /\ plain = inner
        /\ Composed = IF isExtensionDevelopment THEN HostPrefix \o inner ELSE inner

\* a development host that is impure has set a title: the prefix, the
\* resolved template, the suffix
C7_Witness ==
    /\ isExtensionDevelopment
    /\ ~isPure
    /\ Resolved # <<>>
    /\ lastOp = <<"isPure", "">>
    /\ documentTitle = HostPrefix \o Resolved \o UnsupportedSuffix

\* C8 as stated: for /a/b/c.txt the builder yields three actions, labelled
\* c.txt, b, a, revealing /a/b/c.txt, /a/b, /a.
C8_ThreeActions ==
    representedFileName = PathABC =>
        getContextMenuActions =
            << [path |-> PathABC, label |-> <<"c",".","t","x","t">>],
               [path |-> <<"/","a","/","b">>, label |-> <<"b">>],
               [path |-> <<"/","a">>, label |-> <<"a">>] >>

\* C8 amended: for /a/b/c.txt the builder yields four actions, labelled
\* c.txt, b, a, /, revealing /a/b/c.txt, /a/b/c.txt, /a/b, /a, and a context
\* menu request shows exactly these.
C8_FourActions ==
    representedFileName = PathABC =>
        /\ getContextMenuActions =
              << [path |-> PathABC, label |-> <<"c",".","t","x","t">>],
                 [path |-> PathABC, label |-> <<"b">>],
                 [path |-> <<"/","a","/","b">>, label |-> <<"a">>],
                 [path |-> <<"/","a">>, label |-> <<sep>>] >>
        /\ lastOp = <<"onContextMenu", "">> => menu = getContextMenuActions

\* the menu of /a/b/c.txt is on show
C8_Witness ==
    /\ representedFileName = PathABC
    /\ lastOp = <<"onContextMenu", "">>
    /\ showCalls = 1
    /\ Len(menu) = 4

\* the name of a path: its base name, the separator where that is empty
NameOf(path) == IF basename(path) = <<>> THEN <<sep>> ELSE basename(path)

\* the number of segments of a path: one more than its separators
SegmentCount(path) == Cardinality({i \in 1..Len(path) : path[i] = sep}) + 1

\* the prefix of a path made of its first j segments
PrefixOf(path, j) ==
    LET seps == {i \in 1..Len(path) : path[i] = sep}
    IN  IF j > Cardinality(seps) THEN path
        ELSE LET cut == CHOOSE i \in seps :
                            Cardinality({h \in seps : h < i}) = j - 1
             IN  SubSeq(path, 1, cut - 1)

\* C9: for a non-empty represented path of n segments the builder yields n
\* actions, one per prefix length from n down to 1 and labelled with the name
\* of that prefix; the first is the file (the full path, under its base
\* name); each later action reveals a prefix of what the one before it
\* reveals and is labelled with the name of the parent directory of the path
\* it reveals.  (The name of a path whose base name is empty is the
\* separator.)
C9_DeepestFirst ==
    Truthy(representedFileName) =>
        LET p    == representedFileName
            acts == getContextMenuActions
            n    == SegmentCount(p)
        IN  /\ Len(acts) = n
            /\ acts[1].path = p
            /\ acts[1].label = NameOf(p)
            /\ \A k \in 1..n : acts[k].label = NameOf(PrefixOf(p, n - k + 1))
            /\ \A k \in 2..n :
                  /\ IsPrefix(acts[k].path, acts[k-1].path)
                  /\ acts[k].label = NameOf(dirname(acts[k].path))

\* the menu of a path of three named segments is on show
C9_Witness ==
    /\ Truthy(representedFileName)
    /\ SegmentCount(representedFileName) = 3
    /\ lastOp = <<"onContextMenu", "">>
    /\ menu = getContextMenuActions
    /\ menu[1].path = representedFileName
    /\ menu[3].label = <<"a">>
    /\ menu[3].path # menu[2].path

\* C10: with the represented path empty or never set the builder yields no
\* action and a context menu request shows no menu; the builder reads the
\* path of the latest setRepresentedFilename call, so that a request made
\* with a non-empty path shows the menu of that path.
C10_EmptyPathNoMenu ==
    /\ ~Truthy(representedFileName) => getContextMenuActions = <<>>
    /\ representedFileName = nativeRepresentedFilename
    /\ lastOp = <<"onContextMenu", "">> =>
          IF Truthy(nativeRepresentedFilename)
          THEN /\ showCalls = 1
               /\ Len(menu) = SegmentCount(nativeRepresentedFilename)
               /\ menu[1].path = nativeRepresentedFilename
          ELSE showCalls = 0

\* a menu was shown and hidden, the path was then set to the empty string,
\* and a context menu request has just passed without a menu
C10_Witness ==
    /\ representedFileName = <<>>
    /\ nativeRepresentedFilename = <<>>
    /\ lastOp = <<"onContextMenu", "">>
    /\ showCalls = 0
    /\ menu = <<>>
    /\ title # Undefined

\* the colours of the state the widget is in
StateColours == IF isInactive THEN "inactive" ELSE "active"

\* C11: the widget starts active; a blur event leaves it inactive and a focus
\* event active, and no other step changes the state, so that the widget is
\* inactive exactly when the latest focus or blur event was a blur; each such
\* event applies the colours of the new state to the container if it exists,
\* and the colours applied are those of the state ever after.
C11_FocusStyle ==
    /\ ~isInactive
    /\ [][ /\ lastOp'[1] = "onBlur" =>
                 isInactive' /\ (title' # Undefined => containerStyle' = "inactive")
           /\ lastOp'[1] = "onFocus" =>
                 ~isInactive' /\ (title' # Undefined => containerStyle' = "active")
           /\ lastOp'[1] \notin {"onBlur", "onFocus"} =>
                 isInactive' = isInactive /\ containerStyle' = containerStyle
         ]_vars
    /\ [](containerStyle # NoStyle => containerStyle = StateColours)

\* a blur event has reached the widget after its container was created and
\* styled active by a focus event
C11_Witness ==
    /\ title # Undefined
    /\ lastOp = <<"onBlur", "">>
    /\ isInactive
    /\ containerStyle = "inactive"
    /\ "focus" \in toUnbind

\* C12 as stated: the completion of creation and the resolution of the
\* integrity check each make one setTitle(getWindowTitle()) call, whatever
\* the result of the integrity check.
C12_RecomputeAlways ==
    lastOp[1] \in {"joinCreation", "isPure"} =>
        setTitleCalls = 1 /\ documentTitle = Composed

\* C12 amended: each of the two callbacks runs at most once, in either order;
\* the completion of creation makes one setTitle(getWindowTitle()) call; the
\* resolution of the integrity check makes one such call when the result is
\* impure and none when it is pure, the title then staying as it was.
C12_OneShotRecompute ==
    /\ [](lastOp = <<"joinCreation", "">> =>
             setTitleCalls = 1 /\ documentTitle = Composed /\ lastTitle = Composed)
    /\ [](lastOp = <<"isPure", "">> =>
             IF isPure
             THEN setTitleCalls = 0
             ELSE setTitleCalls = 1 /\ documentTitle = Composed /\ lastTitle = Composed)
    /\ [][ /\ lastOp'[1] = "joinCreation" => creation = "pending" /\ creation' = "done"
           /\ lastOp'[1] = "isPure" => integrity = "pending" /\ integrity' = "done"
           /\ creation = "done" => creation' = "done"
           /\ integrity = "done" => integrity' = "done"
           /\ (lastOp'[1] = "isPure" /\ isPure') =>
                 documentTitle' = documentTitle /\ lastTitle' = lastTitle
         ]_vars

\* the integrity check has resolved pure after creation completed, and made
\* no setTitle call
C12_Witness ==
    /\ lastOp = <<"isPure", "">>
    /\ isPure
    /\ integrity = "done"
    /\ creation = "done"
    /\ setTitleCalls = 0
    /\ lastTitle # Undefined

\* the latest setTitle call passed the title the composer gives for the
\* current state, and the window and the title element (if any) show it
TitleIsComposed ==
    /\ lastTitle = Composed
    /\ documentTitle = Composed
    /\ title # Undefined => title = Composed

\* C13: after an editors-changed, workspace-folders-changed or
\* workspace-name-changed event handled by its attached listener, and after a
\* dirty or label change of an editor input that carries a listener of the
\* widget, setTitle has been called within the step and the native window
\* title is what the composer gives for the state the event left.
C13_EventsRecompute ==
    /\ (lastOp[1] = "onEditorsChanged" /\ "editors" \in toUnbind) =>
           setTitleCalls = 1 /\ TitleIsComposed
    /\ (lastOp[1] = "onDidChangeWorkspaceFolders" /\ "folders" \in toUnbind) =>
           setTitleCalls = 1 /\ TitleIsComposed
    /\ (lastOp[1] = "onDidChangeWorkspaceName" /\ "name" \in toUnbind) =>
           setTitleCalls = 1 /\ TitleIsComposed
    /\ \A e \in EditorInputs :
          /\ (lastOp = <<"onDidChangeDirty", e>> /\ emitters[e]["dirty"] > 0) =>
                 setTitleCalls >= 1 /\ TitleIsComposed
          /\ (lastOp = <<"onDidChangeLabel", e>> /\ emitters[e]["label"] > 0) =>
                 setTitleCalls >= 1 /\ TitleIsComposed

\* the listened-to input e1, dirty, has just been renamed in a multi-root
\* workspace, and the title element shows the new name
C13_Witness ==
    /\ lastOp = <<"onDidChangeLabel", "e1">>
    /\ activeInput = "e1"
    /\ emitters["e1"]["label"] = 1
    /\ label["e1"] = <<"b">>
    /\ dirty["e1"]
    /\ workspace = WsMulti
    /\ titleTemplate = TemplateDefault
    /\ title = Composed
    /\ documentTitle = TITLE_DIRTY \o <<"b">> \o TITLE_SEPARATOR \o <<"w","s">>
                          \o TITLE_SEPARATOR \o appNameLong

\* C14: the template stored by the constructor is the configuration value
\* of window.title; while the configuration listener is attached the stored
\* template is the current configuration value after every step, each
\* notification storing the value the configuration then holds; and a
\* notification that changes the stored template calls setTitle once with
\* the title composed from the new template.
C14_TemplateFollowsConfig ==
    /\ titleTemplate = configTitle
    /\ []("configuration" \in toUnbind => titleTemplate = configTitle)
    /\ [][ (lastOp'[1] = "onConfigurationChanged" /\ "configuration" \in toUnbind) =>
              /\ titleTemplate' = configTitle'
              /\ titleTemplate' # titleTemplate =>
                    /\ setTitleCalls' = 1
                    /\ lastTitle' = getWindowTitle(ComposerState')
                    /\ documentTitle' = lastTitle'
         ]_vars

\* a notification has replaced a non-empty template by the empty one, and
\* the title set is the one the empty template composes
C14_Witness ==
    /\ lastOp = <<"onConfigurationChanged", "">>
    /\ "configuration" \in toUnbind
    /\ setTitleCalls = 1
    /\ titleTemplate = TemplateEmpty
    /\ configTitle = TemplateEmpty
    /\ activeInput = NoInput
    /\ workspace = WsFolder
    /\ isPure /\ ~isExtensionDevelopment
    /\ documentTitle = appNameLong
    /\ lastTitle = Composed

\* the substitution values of the current state
Values == SubstitutionValues(ComposerState)

\* the file of the active input, if it has one
ActiveFile ==
    IF activeInput = NoInput \/ InputDir(activeInput) = Undefined
    THEN Undefined
    ELSE InputDir(activeInput) \o <<sep>> \o
         (IF activeInput \in EditorInputs THEN label[activeInput] ELSE <<"c">>)

\* no folder is resolved: the window is no single-folder window, and there is
\* no active file or no workspace folder holds it
NoFolderResolved ==
    /\ workspace.state # "FOLDER"
    /\ \/ ActiveFile = Undefined
       \/ \A i \in 1..Len(workspace.folders) :
             ~IsPrefix(workspace.folders[i] \o <<sep>>, ActiveFile)

\* C15: every placeholder has a substitution value and none is undefined;
\* without an active input the three editor names and the dirty mark are the
\* empty string; without a resolved folder folderName and folderPath are the
\* empty string; in a window without workspace file and folders rootPath is
\* the empty string; and the resolved template holds no text "undefined".
C15_EmptySubstitutions ==
    /\ DOMAIN Values = Placeholders
    /\ \A n \in Placeholders : Values[n].v # Undefined
    /\ activeInput = NoInput =>
          /\ Values["activeEditorShort"].v = <<>>
          /\ Values["activeEditorMedium"].v = <<>>
          /\ Values["activeEditorLong"].v = <<>>
          /\ Values["dirty"].v = <<>>
    /\ NoFolderResolved =>
          Values["folderName"].v = <<>> /\ Values["folderPath"].v = <<>>
    /\ (workspace.configuration = Undefined /\ workspace.folders = <<>>) =>
          Values["rootPath"].v = <<>>
    /\ \A i \in 1..Len(Resolved) : Resolved[i] # "undefined"

\* an empty window without editor: a template of editor, folder and root
\* placeholders resolves to the empty string and the title set is the
\* application name
C15_Witness ==
    /\ activeInput = NoInput
    /\ workspace = WsEmpty
    /\ titleTemplate = TemplateLong
    /\ NoFolderResolved
    /\ Resolved = <<>>
    /\ lastOp = <<"joinCreation", "">>
    /\ isPure /\ ~isExtensionDevelopment
    /\ documentTitle = appNameLong

\* the latest step ran a handler that composed a title and set it
ComposedByLatestStep == setTitleCalls >= 1 /\ lastOp[1] # "setTitle"

Occurs(sub, s) ==
    \E i \in 1..(Len(s) - Len(sub) + 1) : SubSeq(s, i, i + Len(sub) - 1) = sub

\* s ends with sub
IsSuffix(sub, s) ==
    Len(sub) <= Len(s) /\ SubSeq(s, Len(s) - Len(sub) + 1, Len(s)) = sub

\* the substitution values of the example: an editor name, the separator
\* and the root name "proj"
ExampleValues(short) ==
    [activeEditorShort |-> [kind |-> "string", v |-> short],
     rootName          |-> [kind |-> "string", v |-> <<"p","r","o","j">>],
     separator         |-> [kind |-> "separator", v |-> TITLE_SEPARATOR]]

\* C17: the template {activeEditorShort}{separator}{rootName} resolves to
\* "a.txt ~ proj" for the editor name a.txt and the root name proj, and to
\* "proj" for the empty editor name; in every state it resolves to the two
\* names joined by the separator when both are non-empty and to their plain
\* concatenation when one is empty; and whatever the template, the resolved
\* title neither starts nor ends with the separator nor holds two in a row.
C17_ConditionalSeparator ==
    /\ template(TemplateShort, ExampleValues(<<"a",".","t","x","t">>)) =
           <<"a",".","t","x","t">> \o TITLE_SEPARATOR \o <<"p","r","o","j">>
    /\ template(TemplateShort, ExampleValues(<<>>)) = <<"p","r","o","j">>
    /\ titleTemplate = TemplateShort =>
          LET short == Values["activeEditorShort"].v
              root  == Values["rootName"].v
          IN  Resolved = IF short = <<>> \/ root = <<>>
                         THEN short \o root
                         ELSE short \o TITLE_SEPARATOR \o root
    /\ ~IsPrefix(TITLE_SEPARATOR, Resolved)
    /\ ~IsSuffix(TITLE_SEPARATOR, Resolved)
    /\ ~Occurs(TITLE_SEPARATOR \o TITLE_SEPARATOR, Resolved)

\* a folder window without editor: the template resolves to the root name
\* alone, and that is the title set when creation completed
C17_Witness ==
    /\ titleTemplate = TemplateShort
    /\ activeInput = NoInput
    /\ workspace = WsFolder
    /\ Resolved = <<"p">>
    /\ lastOp = <<"joinCreation", "">>
    /\ isPure /\ ~isExtensionDevelopment
    /\ documentTitle = <<"p">>

\* C18: isPure is true after construction; it changes only in the step of
\* the integrity callback, and only to false; once false it stays false; the
\* callback that clears it sets a title with the unsupported suffix, and so
\* does every handler that composes a title while the flag is false.
C18_IsPureMonotonic ==
    /\ isPure = TRUE
    /\ [][ /\ ~isPure => ~isPure'
           /\ isPure' # isPure => lastOp' = <<"isPure", "">>
         ]_vars
    /\ []((lastOp = <<"isPure", "">> /\ ~isPure) => ComposedByLatestStep)
    /\ []((ComposedByLatestStep /\ ~isPure) =>
             /\ IsSuffix(UnsupportedSuffix, lastTitle)
             /\ documentTitle = lastTitle)

\* the integrity check resolved impure, and a later change of the workspace
\* name has set a title that carries the suffix
C18_Witness ==
    /\ ~isPure
    /\ integrity = "done"
    /\ lastOp = <<"onDidChangeWorkspaceName", "">>
    /\ setTitleCalls = 1
    /\ IsSuffix(UnsupportedSuffix, documentTitle)
    /\ title = documentTitle

\* C19: a step of onBlur or onFocus leaves the native window title, the text
\* of the title element, the buffered title, the stored template, the
\* represented path and the list of active-editor listeners (with the
\* listeners attached to the inputs) as they were, and calls neither
\* setTitle nor the context menu.
C19_FocusFrame ==
    [][ lastOp'[1] \in {"onBlur", "onFocus"} =>
          /\ UNCHANGED <<documentTitle, title, pendingTitle, titleTemplate,
                         representedFileName, activeEditorListeners, emitters>>
          /\ setTitleCalls' = 0
          /\ showCalls' = 0
      ]_vars

\* the window has lost focus while the element shows a title set by a
\* caller, a path is represented and the listeners of e1 are attached
C19_Witness ==
    /\ lastOp = <<"onBlur", "">>
    /\ isInactive
    /\ containerStyle = "inactive"
    /\ title = <<"X">>
    /\ documentTitle = <<"X">>
    /\ representedFileName = PathABC
    /\ activeEditorListeners = ListenersOf("e1")

\* C20: the constructor, which reads the template, has called setTitle not
\* once; and a configuration notification that leaves the stored template as
\* it was calls no setTitle and leaves the native window title, the text of
\* the title element and the buffered title as they were.
C20_NoUpdateWithoutChange ==
    /\ lastTitle = Undefined /\ setTitleCalls = 0 /\ pendingTitle = Undefined
    /\ [][ (lastOp'[1] = "onConfigurationChanged" /\ titleTemplate' = titleTemplate) =>
              /\ setTitleCalls' = 0
              /\ UNCHANGED <<documentTitle, title, pendingTitle, lastTitle>>
         ]_vars

\* a notification with the template unchanged has reached the live widget
\* and the title a caller set is still shown
C20_Witness ==
    /\ lastOp = <<"onConfigurationChanged", "">>
    /\ "configuration" \in toUnbind
    /\ setTitleCalls = 0
    /\ titleTemplate = configTitle
    /\ lastTitle = <<"X">>
    /\ title = <<"X">>
    /\ documentTitle = <<"X">>
    /\ creation = "done"

=============================================================================
